---- MODULE Spec2Model ----
(***************************************************************************)
(* Credit ledger and generation-request lifecycle of the gibliapp backend *)
(* (src/src/controllers/modelController.ts), over the tables of           *)
(* src/prisma/schema.prisma.                                               *)
(*                                                                         *)
(* The store is two tables: generation_requests (requests) and            *)
(* user_credits (ledger).  Every handler is an async function whose       *)
(* awaited prisma calls are separate statements against the store: no     *)
(* call is wrapped in a transaction, so a handler is a sequence of atomic *)
(* steps, one per awaited call (with the local computation that follows   *)
(* it), and the steps of concurrent handlers interleave freely.           *)
(***************************************************************************)
EXTENDS Integers, Sequences, FiniteSets

\* ---------------------------------------------------------------- bounds

\* Concurrent request handlers (each serves one HTTP request).
MaxHandlers == 2
\* Largest credit grant a user holds before the first request (0..MaxGrant).
MaxGrant == 2
\* Largest num_outputs a client sends (0 is sent too, and is invalid).
MaxOutputs == 2
\* Largest limit and offset a client sends to the list.
MaxLimit == 1
MaxOffset == 1

\* ------------------------------------------------------ program constants

\* z.number().int().min(1).max(4)
MinNumOutputs == 1
MaxNumOutputs == 4
\* costPerRequest?.toNumber() || 1
DefaultCost == 1
\* parseInt(req.query.limit) || 20
DefaultLimit == 20

Handlers == 1..MaxHandlers
Users == {"u1", "u2"}
\* (req as any).user?.id when no user was resolved upstream
NoUser == "anonymous"
UserInputs == Users \cup {NoUser}

\* ---------------------------------------------------------------- catalog

\* ai_models rows: the controller never writes this table.  costNull is a
\* NULL costPerRequest (the column is Decimal?, DEFAULT 0.00 in tables.sql);
\* prices are whole credits, as in the seed rows of tables.sql.
AiModels ==
    << [isActive |-> TRUE,  costNull |-> FALSE, costPerRequest |-> 2],
       [isActive |-> TRUE,  costNull |-> TRUE,  costPerRequest |-> 0],
       [isActive |-> FALSE, costNull |-> FALSE, costPerRequest |-> 1] >>

\* model_id values a client sends: the catalog's ids and 0, which is no row.
ModelInputs == 0..Len(AiModels)
OutputInputs == 0..MaxOutputs

VARIABLES
    requests,   \* generation_requests rows, in creation order (id = index)
    ledger,     \* user_credits rows, in insertion order
    handler,    \* handler -> its position and local variables
    quiet,      \* handlers that took no step since the latest ledger insert
    before      \* the store as it was when the observed run started

vars == <<requests, ledger, handler, quiet, before>>

\* ------------------------------------------------------------ pure helpers

RECURSIVE SumAmounts(_, _)
\* Sum of the amounts of the user's rows of led.
SumAmounts(led, userId) ==
    IF led = << >> THEN 0
    ELSE (IF Head(led).userId = userId THEN Head(led).amount ELSE 0)
         + SumAmounts(Tail(led), userId)

\* Indices of the user's rows.
UserRows(led, userId) == {i \in 1..Len(led) : led[i].userId = userId}

Max(S) == CHOOSE x \in S : \A y \in S : y <= x

\* findMany({where: {userId}, orderBy: {transactionTime: 'desc'}, take: 1}):
\* the rows the query may return first.  Rows are stored in insertion order
\* and transactionTime never decreases along it; row m has sameTime when its
\* transactionTime equals that of row m-1.  The order names no second key, so
\* among the user's rows that share the greatest transactionTime the store
\* may return any.
LatestRows(led, userId) ==
    LET rows == UserRows(led, userId)
    IN  IF rows = {} THEN {}
        ELSE {i \in rows : \A m \in (i + 1)..Max(rows) : led[m].sameTime}

\* userCredits.length > 0 ? userCredits[0].balanceAfter : 0, for every row
\* the query may return.
BalanceReads(led, userId) ==
    IF UserRows(led, userId) = {} THEN {0}
    ELSE {led[i].balanceAfter : i \in LatestRows(led, userId)}

\* data.num_outputs * (model.costPerRequest?.toNumber() || 1)
RequiredCredits(numOutputs, model) ==
    numOutputs * (IF model.costNull \/ model.costPerRequest = 0
                  THEN DefaultCost ELSE model.costPerRequest)

\* GenerationRequestSchema.safeParse, as far as num_outputs goes.
ValidBody(numOutputs) ==
    numOutputs >= MinNumOutputs /\ numOutputs <= MaxNumOutputs

\* The lookup by id alone: an inactive model is found too.
ActiveModelAnyStatus(modelId) == modelId \in 1..Len(AiModels)

\* prisma.aiModel.findFirst({where: {id, isActive: true}}) finds a row.
ActiveModel(modelId) ==
    modelId \in 1..Len(AiModels) /\ AiModels[modelId].isActive

\* The check with <= for <: a balance equal to the cost is refused.
InsufficientOffByOne(currentBalance, requiredCredits) ==
    currentBalance <= requiredCredits

\* currentBalance < requiredCredits
Insufficient(currentBalance, requiredCredits) ==
    currentBalance < requiredCredits

\* The check that forgets completed: a finished request can be cancelled.
TerminalOnlyFailed(status) == status = "failed"

\* request.status === completed || request.status === failed
Terminal(status) == status \in {"completed", "failed"}

\* ------------------------------------------------------------------ state

\* The fields of a response body the handlers compute.  message is kept
\* where one status code has two meanings (the 400s of submit).
NoBody ==
    [message |-> "", required |-> 0, available |-> 0, refunded_credits |-> 0,
     request_id |-> 0, data |-> << >>, total |-> 0, limit |-> 0, offset |-> 0,
     has_more |-> FALSE]

InvalidParameters == [NoBody EXCEPT !.message = "Invalid request parameters"]
InvalidModel == [NoBody EXCEPT !.message = "Invalid or inactive model selected"]

\* The where clause of the list query before any filter is set; "" and 0
\* stand for a filter that is not part of it.
NoWhere == [userId |-> NoUser, status |-> "", modelId |-> 0]

\* A handler's position (pc), its local variables, and its response once it
\* has returned.
IdleHandler ==
    [op |-> "none", pc |-> "idle", userId |-> NoUser, modelId |-> 0,
     numOutputs |-> 0, requestId |-> 0, currentBalance |-> 0,
     requiredCredits |-> 0, creditsCharged |-> 0, status |-> 0,
     where |-> NoWhere, limit |-> 0, offset |-> 0, totalCount |-> 0,
     body |-> NoBody]

\* A credit grant made before the first request: the controller has no
\* purchase operation, so the ledger a user starts with is given.
Grant(userId, amount) ==
    [userId |-> userId, requestId |-> 0, transactionType |-> "purchase",
     amount |-> amount, balanceAfter |-> amount, sameTime |-> FALSE]

GrantRows(userId, amount) ==
    IF amount = 0 THEN << >> ELSE << Grant(userId, amount) >>

Active(hd) == handler[hd].pc \notin {"idle", "done"}

\* Handlers are interchangeable: they are taken in order.
NextFree(hd) ==
    /\ handler[hd].pc = "idle"
    /\ \A other \in Handlers : other < hd => handler[other].pc # "idle"

\* return res.status(code).json(body): the handler's one response.  Its
\* locals die with the return; the operation, the caller, the request id and
\* the response are kept.
Respond(h, code, body) ==
    [IdleHandler EXCEPT !.op = h.op, !.userId = h.userId,
                        !.requestId = h.requestId, !.pc = "done",
                        !.status = code, !.body = body]

\* Handlers that may give their next user_credits row the transactionTime of
\* the latest row: those already running that took no step since it was
\* inserted.  A handler's own statements are at distinct times.
MayTie(hd) == IF hd \in quiet /\ ledger # << >> THEN BOOLEAN ELSE {FALSE}

\* quiet after hd inserted a user_credits row.
QuietAfterInsert(hd, sameTime) ==
    IF sameTime THEN quiet \ {hd}
    ELSE {other \in Handlers : other # hd /\ Active(other)}

\* ----------------------------------------------- createGenerationRequest

\* Lines 76-112: authentication, body validation and the model lookup.  The
\* locals data.* are assigned only when the body parses.  storeOk is whether
\* aiModel.findFirst returns (it throws otherwise, and the catch answers 500).
SubmitBegin(hd, userId, modelId, numOutputs, storeOk) ==
    /\ NextFree(hd)
    /\ LET h0 == [IdleHandler EXCEPT !.op = "submit", !.userId = userId]
           h1 == [h0 EXCEPT !.modelId = modelId, !.numOutputs = numOutputs]
       IN  handler' = [handler EXCEPT ![hd] =
               IF userId = NoUser THEN Respond(h0, 401, NoBody)
               ELSE IF ~ValidBody(numOutputs) THEN Respond(h0, 400, InvalidParameters)
               ELSE IF ~storeOk THEN Respond(h1, 500, NoBody)
               ELSE IF ~ActiveModel(modelId) THEN Respond(h1, 400, InvalidModel)
               ELSE [h1 EXCEPT !.pc = "readBalance"]]
    /\ UNCHANGED <<requests, ledger, quiet>>

\* What the submit handler does with the balance it read (lines 121-131).
SubmitChecked(h, balance) ==
    LET required == RequiredCredits(h.numOutputs, AiModels[h.modelId])
        h1 == [h EXCEPT !.currentBalance = balance, !.requiredCredits = required]
    IN  IF Insufficient(balance, required)
        THEN Respond(h1, 402, [NoBody EXCEPT !.required = required,
                                             !.available = balance])
        ELSE [h1 EXCEPT !.pc = "createRequest"]

\* The balance query held back while another handler is running.
SubmitReadBalanceWaits(hd) ==
    /\ handler[hd].op = "submit" /\ handler[hd].pc = "readBalance"
    /\ \A other \in Handlers \ {hd} : handler[other].pc \in {"idle", "done"}
    /\ \E balance \in BalanceReads(ledger, handler[hd].userId) :
          handler' = [handler EXCEPT ![hd] = SubmitChecked(handler[hd], balance)]
    /\ quiet' = quiet \ {hd}
    /\ UNCHANGED <<requests, ledger, before>>

\* Lines 115-131: the balance query and the credit check.
SubmitReadBalance(hd) ==
    /\ handler[hd].op = "submit" /\ handler[hd].pc = "readBalance"
    /\ \E balance \in BalanceReads(ledger, handler[hd].userId) :
          handler' = [handler EXCEPT ![hd] = SubmitChecked(handler[hd], balance)]
    /\ quiet' = quiet \ {hd}
    /\ UNCHANGED <<requests, ledger, before>>

\* The row generationRequest.create writes (lines 134-149).
NewRequest(h) ==
    [userId |-> h.userId, modelId |-> h.modelId, numOutputs |-> h.numOutputs,
     status |-> "pending", creditsCharged |-> h.requiredCredits,
     errorMessage |-> "", completedAt |-> 0]

SubmitCreateRequest(hd) ==
    /\ handler[hd].op = "submit" /\ handler[hd].pc = "createRequest"
    /\ requests' = Append(requests, NewRequest(handler[hd]))
    /\ handler' = [handler EXCEPT ![hd] =
           [@ EXCEPT !.pc = "createCredit", !.requestId = Len(requests) + 1]]
    /\ quiet' = quiet \ {hd}
    /\ UNCHANGED <<ledger, before>>

\* The debit with the balance it read as balanceAfter, the charge forgotten.
ConsumptionEntryStaleBalance(h, sameTime) ==
    [userId |-> h.userId, requestId |-> h.requestId,
     transactionType |-> "consumption", amount |-> -h.requiredCredits,
     balanceAfter |-> h.currentBalance, sameTime |-> sameTime]

\* The row userCredit.create writes in submit (lines 152-161).
ConsumptionEntry(h, sameTime) ==
    [userId |-> h.userId, requestId |-> h.requestId,
     transactionType |-> "consumption", amount |-> -h.requiredCredits,
     balanceAfter |-> h.currentBalance - h.requiredCredits,
     sameTime |-> sameTime]

\* Lines 152-170: the debit and the 202 response.
SubmitCreateCredit(hd) ==
    /\ handler[hd].op = "submit" /\ handler[hd].pc = "createCredit"
    /\ \E sameTime \in MayTie(hd) :
          /\ ledger' = Append(ledger, ConsumptionEntry(handler[hd], sameTime))
          /\ quiet' = QuietAfterInsert(hd, sameTime)
    /\ handler' = [handler EXCEPT ![hd] =
           Respond(handler[hd], 202,
               [NoBody EXCEPT !.request_id = handler[hd].requestId])]
    /\ UNCHANGED <<requests, before>>

\* ------------------------------------------------------------ first state

\* The store the handlers start from is the one earlier requests left: the
\* users' grants, and possibly requests of u1: the request and debit of a
\* submit that ran alone (one output of model 2), and a row written without
\* a charge.

\* A generation_requests row written without a charge (creditsCharged Int
\* @default(0)): the only rows with creditsCharged = 0, since submit charges
\* num_outputs * (cost || 1) >= 1.
UnchargedRequest(userId) ==
    [userId |-> userId, modelId |-> 1, numOutputs |-> 1, status |-> "pending",
     creditsCharged |-> 0, errorMessage |-> "", completedAt |-> 0]

Init ==
    /\ handler = [hd \in Handlers |-> IdleHandler]
    /\ quiet = {}
    /\ \E grant \in 0..MaxGrant, submitted \in BOOLEAN, uncharged \in BOOLEAN :
          LET grants == GrantRows("u1", grant) \o GrantRows("u2", grant)
              \* the locals of an earlier submit of u1 that ran alone
              h == [IdleHandler EXCEPT !.op = "submit", !.userId = "u1",
                       !.modelId = 2, !.numOutputs = MinNumOutputs,
                       !.currentBalance = grant, !.requestId = 1,
                       !.requiredCredits =
                           RequiredCredits(MinNumOutputs, AiModels[2])]
          IN  /\ submitted => ~Insufficient(grant, h.requiredCredits)
              /\ requests =
                    (IF submitted THEN << NewRequest(h) >> ELSE << >>)
                    \o (IF uncharged THEN << UnchargedRequest("u1") >> ELSE << >>)
              /\ ledger =
                    IF submitted THEN Append(grants, ConsumptionEntry(h, FALSE))
                    ELSE grants
    /\ before = [requests |-> requests, ledger |-> ledger]

\* ------------------------------------------------ cancelGenerationRequest

\* The lookup by id alone: any user's request is found.
OwnedRequestAnyUser(reqs, requestId, userId) == requestId \in 1..Len(reqs)

\* generationRequest.findFirst({where: {id: requestId, userId}}) finds a row.
OwnedRequest(reqs, requestId, userId) ==
    requestId \in 1..Len(reqs) /\ reqs[requestId].userId = userId

\* Lines 366-399: authentication, the request lookup and the status check.
\* The local request is the row as read here (creditsCharged is all the
\* handler uses of it later).
CancelBegin(hd, userId, requestId, storeOk) ==
    /\ NextFree(hd)
    /\ LET h0 == [IdleHandler EXCEPT !.op = "cancel", !.userId = userId]
           h1 == [h0 EXCEPT !.requestId = requestId]
       IN  handler' = [handler EXCEPT ![hd] =
               IF userId = NoUser THEN Respond(h0, 401, NoBody)
               ELSE IF ~storeOk THEN Respond(h1, 500, NoBody)
               ELSE IF ~OwnedRequest(requests, requestId, userId)
                    THEN Respond(h1, 404, NoBody)
               ELSE IF Terminal(requests[requestId].status)
                    THEN Respond(h1, 400, NoBody)
               ELSE [h1 EXCEPT !.pc = "update",
                        !.creditsCharged = requests[requestId].creditsCharged]]
    /\ UNCHANGED <<requests, ledger, quiet>>

\* new Date() as a handler evaluates it: two evaluations give two instants,
\* so the value is named by who evaluated it (0 is the column's NULL).
DateOf(hd) == hd

\* The update that also clears the charge of the cancelled request.
CancelledChargeCleared(row, now) ==
    [row EXCEPT !.status = "failed", !.errorMessage = "Cancelled by user",
                !.completedAt = now, !.creditsCharged = 0]

\* The update without status: 'failed': the row stays cancellable.
CancelledStatusKept(row, now) ==
    [row EXCEPT !.errorMessage = "Cancelled by user", !.completedAt = now]

\* The row after generationRequest.update({where: {id}, data: {...}}).
Cancelled(row, now) ==
    [row EXCEPT !.status = "failed", !.errorMessage = "Cancelled by user",
                !.completedAt = now]

\* Lines 401-412 (and 433-437 when nothing was charged).
CancelUpdate(hd) ==
    /\ handler[hd].op = "cancel" /\ handler[hd].pc = "update"
    /\ requests' = [requests EXCEPT ![handler[hd].requestId] = Cancelled(@, DateOf(hd))]
    /\ handler' = [handler EXCEPT ![hd] =
           IF handler[hd].creditsCharged > 0
           THEN [handler[hd] EXCEPT !.pc = "refundRead"]
           ELSE Respond(handler[hd], 200,
                    [NoBody EXCEPT !.refunded_credits = handler[hd].creditsCharged])]
    /\ quiet' = quiet \ {hd}
    /\ UNCHANGED <<ledger, before>>

\* Lines 413-419: the balance query of the refund.
CancelReadBalance(hd) ==
    /\ handler[hd].op = "cancel" /\ handler[hd].pc = "refundRead"
    /\ \E balance \in BalanceReads(ledger, handler[hd].userId) :
          handler' = [handler EXCEPT ![hd] =
              [@ EXCEPT !.pc = "refundCredit", !.currentBalance = balance]]
    /\ quiet' = quiet \ {hd}
    /\ UNCHANGED <<requests, ledger, before>>

\* The refund written as a second debit.
RefundEntryNegated(h, sameTime) ==
    [userId |-> h.userId, requestId |-> h.requestId,
     transactionType |-> "refund", amount |-> -h.creditsCharged,
     balanceAfter |-> h.currentBalance - h.creditsCharged,
     sameTime |-> sameTime]

\* The refund written without its requestId (the column is optional).
RefundEntryUnlinked(h, sameTime) ==
    [userId |-> h.userId, requestId |-> 0,
     transactionType |-> "refund", amount |-> h.creditsCharged,
     balanceAfter |-> h.currentBalance + h.creditsCharged,
     sameTime |-> sameTime]

\* The refund with the balance it read as balanceAfter, the credit forgotten.
RefundEntryBalanceKept(h, sameTime) ==
    [userId |-> h.userId, requestId |-> h.requestId,
     transactionType |-> "refund", amount |-> h.creditsCharged,
     balanceAfter |-> h.currentBalance, sameTime |-> sameTime]

\* The row userCredit.create writes in cancel (lines 421-430).
RefundEntry(h, sameTime) ==
    [userId |-> h.userId, requestId |-> h.requestId,
     transactionType |-> "refund", amount |-> h.creditsCharged,
     balanceAfter |-> h.currentBalance + h.creditsCharged,
     sameTime |-> sameTime]

\* The refund written over the user's latest row instead of appended.
CancelCreateCreditInPlace(hd) ==
    /\ handler[hd].op = "cancel" /\ handler[hd].pc = "refundCredit"
    /\ UserRows(ledger, handler[hd].userId) # {}
    /\ ledger' = [ledger EXCEPT ![Max(UserRows(ledger, handler[hd].userId))] =
           [@ EXCEPT !.amount = @ + handler[hd].creditsCharged,
                     !.balanceAfter = @ + handler[hd].creditsCharged]]
    /\ quiet' = quiet \ {hd}
    /\ handler' = [handler EXCEPT ![hd] =
           Respond(handler[hd], 200,
               [NoBody EXCEPT !.refunded_credits = handler[hd].creditsCharged])]
    /\ UNCHANGED <<requests, before>>

\* Lines 421-437: the refund and the 200 response.
CancelCreateCredit(hd) ==
    /\ handler[hd].op = "cancel" /\ handler[hd].pc = "refundCredit"
    /\ \E sameTime \in MayTie(hd) :
          /\ ledger' = Append(ledger, RefundEntry(handler[hd], sameTime))
          /\ quiet' = QuietAfterInsert(hd, sameTime)
    /\ handler' = [handler EXCEPT ![hd] =
           Respond(handler[hd], 200,
               [NoBody EXCEPT !.refunded_credits = handler[hd].creditsCharged])]
    /\ UNCHANGED <<requests, before>>

\* ------------------------------------------------- getGenerationRequests

\* Query values a client sends.  limit 0 is limit=0 or no limit at all
\* (parseInt gives 0 or NaN, both falsy); status "" and model_id 0 are an
\* absent, empty or zero parameter, all falsy as well.
LimitInputs == 0..MaxLimit
OffsetInputs == 0..MaxOffset
StatusInputs == {"", "pending"}
\* model_id values a client sends to the list: none, or the second model.
ModelFilters == {0, 2}

\* parseInt(req.query.limit) || 20
ParseLimit(limit) == IF limit = 0 THEN DefaultLimit ELSE limit

\* where = {userId}; if (status) where.status = status; if (modelId)
\* where.modelId = modelId
Where(userId, status, modelId) ==
    [userId |-> userId, status |-> status, modelId |-> modelId]

\* The filter that forgets the caller: every user's requests match.
MatchingAnyUser(reqs, where) ==
    {i \in 1..Len(reqs) :
        /\ where.status # "" => reqs[i].status = where.status
        /\ where.modelId # 0 => reqs[i].modelId = where.modelId}

\* Ids of the rows the where clause selects.
Matching(reqs, where) ==
    {i \in 1..Len(reqs) :
        /\ reqs[i].userId = where.userId
        /\ where.status # "" => reqs[i].status = where.status
        /\ where.modelId # 0 => reqs[i].modelId = where.modelId}

RECURSIVE Descending(_)
\* orderBy: {requestedAt: 'desc'}: requestedAt defaults to now() at creation,
\* so it grows with the id (rows are created at distinct instants).
Descending(ids) ==
    IF ids = {} THEN << >>
    ELSE << Max(ids) >> \o Descending(ids \ {Max(ids)})

Min(a, b) == IF a <= b THEN a ELSE b

\* skip: offset, take: limit
Page(rows, offset, limit) == SubSeq(rows, offset + 1, Min(offset + limit, Len(rows)))

\* An element of formattedRequests (lines 232-249).
Formatted(reqs, requestId) ==
    [request_id |-> requestId, status |-> reqs[requestId].status,
     modelId |-> reqs[requestId].modelId,
     completed_at |-> reqs[requestId].completedAt]

\* Lines 184-204: authentication, the query parameters and the count.
ListBegin(hd, userId, limit, offset, status, modelId, storeOk) ==
    /\ NextFree(hd)
    /\ LET h0 == [IdleHandler EXCEPT !.op = "list", !.userId = userId]
           where == Where(userId, status, modelId)
       IN  handler' = [handler EXCEPT ![hd] =
               IF userId = NoUser THEN Respond(h0, 401, NoBody)
               ELSE IF ~storeOk THEN Respond(h0, 500, NoBody)
               ELSE [h0 EXCEPT !.pc = "findMany", !.where = where,
                        !.limit = ParseLimit(limit), !.offset = offset,
                        !.totalCount = Cardinality(Matching(requests, where))]]
    /\ UNCHANGED <<requests, ledger, quiet>>

\* Lines 207-260: the page query and the 200 response.
ListFindMany(hd) ==
    /\ handler[hd].op = "list" /\ handler[hd].pc = "findMany"
    /\ LET h == handler[hd]
           found == Page(Descending(Matching(requests, h.where)), h.offset, h.limit)
       IN  handler' = [handler EXCEPT ![hd] =
               Respond(h, 200,
                   [NoBody EXCEPT
                       !.data = [i \in 1..Len(found) |-> Formatted(requests, found[i])],
                       !.total = h.totalCount, !.limit = h.limit,
                       !.offset = h.offset,
                       !.has_more = (h.offset + Len(found) < h.totalCount)])]
    /\ quiet' = quiet \ {hd}
    /\ UNCHANGED <<requests, ledger, before>>

\* ---------------------------------------------- getGenerationRequestById

\* formattedRequest (lines 318-349).
Detail(reqs, requestId) ==
    [request_id |-> requestId, status |-> reqs[requestId].status,
     num_outputs |-> reqs[requestId].numOutputs,
     modelId |-> reqs[requestId].modelId,
     completed_at |-> reqs[requestId].completedAt,
     credits_charged |-> reqs[requestId].creditsCharged,
     error_message |-> reqs[requestId].errorMessage]

\* Lines 274-354: the whole handler, whose one awaited call is findFirst.
GetById(hd, userId, requestId, storeOk) ==
    /\ NextFree(hd)
    /\ LET h0 == [IdleHandler EXCEPT !.op = "getById", !.userId = userId]
           h1 == [h0 EXCEPT !.requestId = requestId]
       IN  handler' = [handler EXCEPT ![hd] =
               IF userId = NoUser THEN Respond(h0, 401, NoBody)
               ELSE IF ~storeOk THEN Respond(h1, 500, NoBody)
               ELSE IF ~OwnedRequest(requests, requestId, userId)
                    THEN Respond(h1, 404, NoBody)
               ELSE Respond(h1, 200,
                        [NoBody EXCEPT !.request_id = requestId,
                                       !.data = << Detail(requests, requestId) >>])]
    /\ UNCHANGED <<requests, ledger, quiet>>

\* ------------------------------------------------------------ store faults

\* The awaited prisma call the handler is at throws without effect; the catch
\* block (lines 171-178, 438-445) answers 500.  Nothing the handler wrote
\* before is undone: no call runs inside a transaction.
StoreFailure(hd) ==
    /\ Active(hd)
    /\ handler' = [handler EXCEPT ![hd] = Respond(handler[hd], 500, NoBody)]
    /\ quiet' = quiet \ {hd}
    /\ UNCHANGED <<requests, ledger, before>>

\* ------------------------------------------------------ generation worker

\* The instant at which the worker completes a request.
WorkerDate == MaxHandlers + 1

\* The external worker picks a pending request up.
WorkerStart(requestId) ==
    /\ requests[requestId].status = "pending"
    /\ requests' = [requests EXCEPT ![requestId] = [@ EXCEPT !.status = "processing"]]
    /\ UNCHANGED <<ledger, handler, quiet, before>>

\* The external worker finishes a request it is processing.
WorkerComplete(requestId) ==
    /\ requests[requestId].status = "processing"
    /\ requests' = [requests EXCEPT ![requestId] =
           [@ EXCEPT !.status = "completed", !.completedAt = WorkerDate]]
    /\ UNCHANGED <<ledger, handler, quiet, before>>

\* ---------------------------------------------------------- specification

\* request_id values a client sends: the ids in the table and one that is
\* not.
RequestInputs == 1..(Len(requests) + 1)

\* The store, as a snapshot.
Store == [requests |-> requests, ledger |-> ledger]

NoneActive == \A hd \in Handlers : ~Active(hd)

\* A request arrives while others may be running.
SubmitArrives(hd, userId, modelId, numOutputs, storeOk) ==
    /\ SubmitBegin(hd, userId, modelId, numOutputs, storeOk)
    /\ UNCHANGED before

CancelArrives(hd, userId, storeOk) ==
    \E requestId \in RequestInputs :
        /\ CancelBegin(hd, userId, requestId, storeOk)
        /\ UNCHANGED before

\* The worker moves some request on.
WorkerStarts == \E requestId \in 1..Len(requests) : WorkerStart(requestId)

WorkerCompletes == \E requestId \in 1..Len(requests) : WorkerComplete(requestId)

\* Concurrent handlers: requests arrive at any time and the steps of the
\* handlers and of the worker interleave.  before stays the first store.
Next ==
    \/ \E hd \in Handlers, userId \in UserInputs, modelId \in ModelInputs,
          numOutputs \in OutputInputs, storeOk \in BOOLEAN :
          SubmitArrives(hd, userId, modelId, numOutputs, storeOk)
    \/ \E hd \in Handlers : SubmitReadBalance(hd)
    \/ \E hd \in Handlers : SubmitCreateRequest(hd)
    \/ \E hd \in Handlers : SubmitCreateCredit(hd)
    \/ \E hd \in Handlers, userId \in UserInputs, storeOk \in BOOLEAN :
          CancelArrives(hd, userId, storeOk)
    \/ \E hd \in Handlers : CancelUpdate(hd)
    \/ \E hd \in Handlers : CancelReadBalance(hd)
    \/ \E hd \in Handlers : CancelCreateCredit(hd)
    \/ \E hd \in Handlers : StoreFailure(hd)
    \/ WorkerStarts
    \/ WorkerCompletes

Spec == Init /\ [][Next]_vars

\* A request arrives when no handler is running; before becomes the store
\* its handler finds.
SubmitArrivesAlone(hd, userId, modelId, numOutputs, storeOk) ==
    /\ NoneActive
    /\ SubmitBegin(hd, userId, modelId, numOutputs, storeOk)
    /\ before' = Store

CancelArrivesAlone(hd, userId, storeOk) ==
    /\ NoneActive
    /\ \E requestId \in RequestInputs :
          CancelBegin(hd, userId, requestId, storeOk)
    /\ before' = Store

\* The worker moves between two requests.
WorkerStartsBetween == NoneActive /\ WorkerStarts

WorkerCompletesBetween == NoneActive /\ WorkerCompletes

\* One request at a time: every handler runs from its first step to its
\* response with no step of another handler or of the worker in between.
SeqNext ==
    \/ \E hd \in Handlers, userId \in UserInputs, modelId \in ModelInputs,
          numOutputs \in OutputInputs, storeOk \in BOOLEAN :
          SubmitArrivesAlone(hd, userId, modelId, numOutputs, storeOk)
    \/ \E hd \in Handlers : SubmitReadBalance(hd)
    \/ \E hd \in Handlers : SubmitCreateRequest(hd)
    \/ \E hd \in Handlers : SubmitCreateCredit(hd)
    \/ \E hd \in Handlers, userId \in UserInputs, storeOk \in BOOLEAN :
          CancelArrivesAlone(hd, userId, storeOk)
    \/ \E hd \in Handlers : CancelUpdate(hd)
    \/ \E hd \in Handlers : CancelReadBalance(hd)
    \/ \E hd \in Handlers : CancelCreateCredit(hd)
    \/ \E hd \in Handlers : StoreFailure(hd)
    \/ WorkerStartsBetween
    \/ WorkerCompletesBetween

SpecSeq == Init /\ [][SeqNext]_vars

ListArrives(hd, userId, limit, offset, status, modelId, storeOk) ==
    /\ ListBegin(hd, userId, limit, offset, status, modelId, storeOk)
    /\ UNCHANGED before

GetByIdArrives(hd, userId, storeOk) ==
    \E requestId \in RequestInputs :
        /\ GetById(hd, userId, requestId, storeOk)
        /\ UNCHANGED before

\* All four handlers, concurrent: the steps of Next and those of the two
\* reading handlers.
AllNext ==
    \/ \E hd \in Handlers, userId \in UserInputs, modelId \in ModelInputs,
          numOutputs \in OutputInputs, storeOk \in BOOLEAN :
          SubmitArrives(hd, userId, modelId, numOutputs, storeOk)
    \/ \E hd \in Handlers : SubmitReadBalance(hd)
    \/ \E hd \in Handlers : SubmitCreateRequest(hd)
    \/ \E hd \in Handlers : SubmitCreateCredit(hd)
    \/ \E hd \in Handlers, userId \in UserInputs, storeOk \in BOOLEAN :
          CancelArrives(hd, userId, storeOk)
    \/ \E hd \in Handlers : CancelUpdate(hd)
    \/ \E hd \in Handlers : CancelReadBalance(hd)
    \/ \E hd \in Handlers : CancelCreateCredit(hd)
    \/ \E hd \in Handlers, userId \in UserInputs, limit \in LimitInputs,
          offset \in OffsetInputs, status \in StatusInputs,
          modelId \in ModelFilters, storeOk \in BOOLEAN :
          ListArrives(hd, userId, limit, offset, status, modelId, storeOk)
    \/ \E hd \in Handlers : ListFindMany(hd)
    \/ \E hd \in Handlers, userId \in UserInputs, storeOk \in BOOLEAN :
          GetByIdArrives(hd, userId, storeOk)
    \/ \E hd \in Handlers : StoreFailure(hd)
    \/ WorkerStarts
    \/ WorkerCompletes

SpecAll == Init /\ [][AllNext]_vars

\* The continuation of handler hd that runs when its awaited store call
\* returns.
Proceeds(hd) ==
    \/ SubmitReadBalance(hd)
    \/ SubmitCreateRequest(hd)
    \/ SubmitCreateCredit(hd)
    \/ CancelUpdate(hd)
    \/ CancelReadBalance(hd)
    \/ CancelCreateCredit(hd)
    \/ ListFindMany(hd)

\* The awaited call of handler hd settles: it returns or it throws.
Settles(hd) == Proceeds(hd) \/ StoreFailure(hd)

\* Whether a handler returns does not depend on what the store holds or on
\* who calls: the runs checked for it start from the first store that holds
\* both earlier requests and the largest grant, and follow the requests of
\* one user, whose handlers share rows.
LiveInit ==
    /\ Init
    /\ Len(requests) = 2 /\ Len(ledger) = 3
    /\ ledger[1].amount = MaxGrant

Callers == {"u1", NoUser}

LiveNext ==
    \/ \E hd \in Handlers, userId \in Callers, modelId \in ModelInputs,
          numOutputs \in OutputInputs, storeOk \in BOOLEAN :
          SubmitArrives(hd, userId, modelId, numOutputs, storeOk)
    \/ \E hd \in Handlers : SubmitReadBalance(hd)
    \/ \E hd \in Handlers : SubmitCreateRequest(hd)
    \/ \E hd \in Handlers : SubmitCreateCredit(hd)
    \/ \E hd \in Handlers, userId \in Callers, storeOk \in BOOLEAN :
          CancelArrives(hd, userId, storeOk)
    \/ \E hd \in Handlers : CancelUpdate(hd)
    \/ \E hd \in Handlers : CancelReadBalance(hd)
    \/ \E hd \in Handlers : CancelCreateCredit(hd)
    \/ \E hd \in Handlers, userId \in Callers, limit \in LimitInputs,
          offset \in OffsetInputs, status \in StatusInputs,
          modelId \in ModelFilters, storeOk \in BOOLEAN :
          ListArrives(hd, userId, limit, offset, status, modelId, storeOk)
    \/ \E hd \in Handlers : ListFindMany(hd)
    \/ \E hd \in Handlers, userId \in Callers, storeOk \in BOOLEAN :
          GetByIdArrives(hd, userId, storeOk)
    \/ \E hd \in Handlers : StoreFailure(hd)
    \/ WorkerStarts
    \/ WorkerCompletes

\* All four handlers on a store whose calls always return or fail: the event
\* loop runs the continuation of every settled call, so no running handler
\* is left forever without its next step.
SpecLive ==
    LiveInit /\ [][LiveNext]_vars /\ \A hd \in Handlers : WF_vars(Settles(hd))

\* ------------------------------------------------------------------ claims

\* balanceAfter of the user's latest row in insertion order, 0 without rows.
LatestBalance(led, userId) ==
    IF UserRows(led, userId) = {} THEN 0
    ELSE led[Max(UserRows(led, userId))].balanceAfter

\* In this step handler hd of operation op returns with status code.
Finishes(hd, op, code) ==
    /\ handler[hd].pc # "done"
    /\ handler'[hd].pc = "done"
    /\ handler'[hd].op = op
    /\ handler'[hd].status = code

\* Rows of the ledger of the given type linked to the request.
EntriesOf(led, requestId, type) ==
    {i \in 1..Len(led) : led[i].requestId = requestId
                         /\ led[i].transactionType = type}

\* C1: under any interleaving of submit and cancel handlers, no consumption
\* row has balanceAfter < 0 and no user's balance (the sum of the user's
\* amounts) is below 0.
C1_BalanceNeverNegative ==
    /\ \A i \in 1..Len(ledger) :
          ledger[i].transactionType = "consumption" => ledger[i].balanceAfter >= 0
    /\ \A userId \in Users : SumAmounts(ledger, userId) >= 0

\* What a returned submit asked to be charged.
SubmitCost(hd) ==
    IF handler[hd].status = 202
    THEN requests[handler[hd].body.request_id].creditsCharged
    ELSE handler[hd].body.required

\* C2: of two submits of one user whose balance, before either, equals the
\* cost of each (> 0), exactly one is accepted (202) and the other is refused
\* with 402, however their steps interleave.
C2_ExactlyOneSubmitSucceeds ==
    \A h1, h2 \in Handlers :
        LET userId == handler[h1].userId
            balance == LatestBalance(before.ledger, userId)
        IN  (/\ h1 < h2
             /\ \A hd \in Handlers \ {h1, h2} : handler[hd].pc = "idle"
             /\ \A hd \in {h1, h2} :
                   /\ handler[hd].op = "submit"
                   /\ handler[hd].pc = "done"
                   /\ handler[hd].status \in {202, 402}
                   /\ handler[hd].userId = userId
                   /\ SubmitCost(hd) = balance
             /\ balance > 0)
            => {handler[h1].status, handler[h2].status} = {202, 402}

\* C3: every ledger row's balanceAfter is the balanceAfter of the same user's
\* preceding row plus the row's amount (the amount itself for a first row).
C3_BalanceChain ==
    \A i \in 1..Len(ledger) :
        LET earlier == {j \in UserRows(ledger, ledger[i].userId) : j < i}
        IN  ledger[i].balanceAfter =
                (IF earlier = {} THEN 0 ELSE ledger[Max(earlier)].balanceAfter)
                + ledger[i].amount

\* C4: when no handler is running, every user's current balance (balanceAfter
\* of the latest row, 0 without rows) is the sum of the user's amounts.
C4_BalanceIsSum ==
    NoneActive =>
        \A userId \in Users :
            LatestBalance(ledger, userId) = SumAmounts(ledger, userId)

\* C5: submit is all-or-nothing: once the submit that wrote a request with
\* creditsCharged = N > 0 has returned (with whatever response), a consumption
\* row of amount -N linked to the request exists; and every consumption row
\* is linked to an existing request.
C5_SubmitAllOrNothing ==
    /\ \A requestId \in 1..Len(requests) :
          (/\ requests[requestId].creditsCharged > 0
           /\ \A hd \in Handlers :
                 ~(handler[hd].op = "submit" /\ Active(hd)
                   /\ handler[hd].requestId = requestId))
          => \E i \in EntriesOf(ledger, requestId, "consumption") :
                ledger[i].amount = -requests[requestId].creditsCharged
    /\ \A i \in 1..Len(ledger) :
          ledger[i].transactionType = "consumption"
          => ledger[i].requestId \in 1..Len(requests)

\* C6: no request ever has more than one refund row, also when several cancel
\* handlers run on it at once.
C6_AtMostOneRefund ==
    \A requestId \in 1..Len(requests) :
        Cardinality(EntriesOf(ledger, requestId, "refund")) <= 1

\* C7: terminal states are absorbing: no step changes the status, the
\* errorMessage or the completedAt of a request that is completed or failed.
C7_TerminalAbsorbing ==
    [][\A requestId \in 1..Len(requests) :
          Terminal(requests[requestId].status)
          => /\ requests'[requestId].status = requests[requestId].status
             /\ requests'[requestId].errorMessage = requests[requestId].errorMessage
             /\ requests'[requestId].completedAt = requests[requestId].completedAt]_vars

\* C8: a submit whose requiredCredits exceeds the balance it read writes no
\* request row and no ledger row, from its first step to its response, and
\* answers 402 with required = requiredCredits and available = that balance;
\* a submit goes on to write only when the balance covers requiredCredits.
C8_InsufficientCreditsWritesNothing ==
    [][\A hd \in Handlers :
          LET h == handler[hd]
              required == RequiredCredits(h.numOutputs, AiModels[h.modelId])
              reads == BalanceReads(ledger, h.userId)
          IN  /\ (/\ handler'[hd] # h
                  /\ handler'[hd].op = "submit"
                  /\ h.pc \in {"idle", "readBalance"})
                 => requests' = requests /\ ledger' = ledger
              /\ (/\ h.op = "submit" /\ h.pc = "readBalance"
                  /\ handler'[hd] # h
                  /\ handler'[hd].status # 500)
                 => \/ /\ handler'[hd].pc = "done"
                       /\ handler'[hd].status = 402
                       /\ handler'[hd].body.required = required
                       /\ handler'[hd].body.available \in reads
                       /\ required > handler'[hd].body.available
                    \/ /\ handler'[hd].pc = "createRequest"
                       /\ handler'[hd].currentBalance \in reads
                       /\ required <= handler'[hd].currentBalance]_vars

\* C8's case: a submit was refused for a balance below its cost.
C8_Witness ==
    \E hd \in Handlers :
        /\ handler[hd].op = "submit" /\ handler[hd].status = 402
        /\ handler[hd].body.required > handler[hd].body.available
        /\ handler[hd].body.available = LatestBalance(ledger, handler[hd].userId)

\* C9: a submit that runs alone and is accepted (202) leaves the store it
\* found plus one request of the caller, pending, with creditsCharged =
\* num_outputs * cost, and plus one ledger row of the caller, a consumption
\* linked to that request with amount = -creditsCharged; the balance read
\* right after is the balance before minus requiredCredits.
C9_SubmitEffect ==
    [][\A hd \in Handlers :
          Finishes(hd, "submit", 202) =>
              LET h == handler[hd]
                  requestId == handler'[hd].body.request_id
                  n0 == Len(before.requests)
                  l0 == Len(before.ledger)
                  required == RequiredCredits(h.numOutputs, AiModels[h.modelId])
              IN  /\ Len(requests') = n0 + 1
                  /\ SubSeq(requests', 1, n0) = before.requests
                  /\ requestId = n0 + 1
                  /\ requests'[requestId].userId = h.userId
                  /\ requests'[requestId].status = "pending"
                  /\ requests'[requestId].creditsCharged = required
                  /\ Len(ledger') = l0 + 1
                  /\ SubSeq(ledger', 1, l0) = before.ledger
                  /\ ledger'[l0 + 1].userId = h.userId
                  /\ ledger'[l0 + 1].requestId = requestId
                  /\ ledger'[l0 + 1].transactionType = "consumption"
                  /\ ledger'[l0 + 1].amount = -requests'[requestId].creditsCharged
                  /\ BalanceReads(ledger', h.userId) =
                        {LatestBalance(before.ledger, h.userId) - required}]_vars

\* C9's case: an accepted submit has just returned, its request and its debit
\* are the newest rows.
C9_Witness ==
    \E hd \in Handlers :
        /\ handler[hd].op = "submit" /\ handler[hd].status = 202
        /\ handler[hd].body.request_id = Len(requests)
        /\ Len(requests) = Len(before.requests) + 1
        /\ Len(ledger) = Len(before.ledger) + 1
        /\ ledger[Len(ledger)].requestId = Len(requests)
        /\ ledger[Len(ledger)].amount < 0

\* C10: a cancel, run alone, by the owner of a request that is pending or
\* processing goes through unless the store fails, and when it answers 200
\* the request is failed ("Cancelled by user", completedAt set), the response
\* carries refunded_credits = creditsCharged = N, and the ledger it found has
\* gained exactly one refund row of +N linked to the request when N > 0 and
\* nothing when N = 0.
C10_CancelEffect ==
    [][\A hd \in Handlers :
          LET h == handler[hd]
              requestId == handler'[hd].requestId
              userId == handler'[hd].userId
          IN  /\ (/\ h.pc = "idle" /\ handler'[hd].op = "cancel"
                  /\ OwnedRequest(requests, requestId, userId)
                  /\ requests[requestId].status \in {"pending", "processing"})
                 => handler'[hd].pc = "update" \/ handler'[hd].status = 500
              /\ (/\ h.op = "cancel" /\ Active(hd) /\ handler'[hd].pc = "done")
                 => handler'[hd].status \in {200, 500}
              /\ Finishes(hd, "cancel", 200) =>
                    LET row == before.requests[requestId]
                        N == row.creditsCharged
                    IN  /\ row.userId = userId
                        /\ row.status \in {"pending", "processing"}
                        /\ requests'[requestId].completedAt # 0
                        /\ requests' = [before.requests EXCEPT ![requestId] =
                               [row EXCEPT !.status = "failed",
                                   !.errorMessage = "Cancelled by user",
                                   !.completedAt = requests'[requestId].completedAt]]
                        /\ handler'[hd].body.refunded_credits = N
                        /\ IF N > 0
                           THEN ledger' = Append(before.ledger,
                                    [userId |-> userId, requestId |-> requestId,
                                     transactionType |-> "refund", amount |-> N,
                                     balanceAfter |->
                                        LatestBalance(before.ledger, userId) + N,
                                     sameTime |-> FALSE])
                           ELSE ledger' = before.ledger]_vars

\* C10's cases: one cancel refunded a charged request, another cancelled an
\* uncharged one and left the ledger alone.
C10_Witness ==
    \E h1, h2 \in Handlers :
        /\ handler[h1].op = "cancel" /\ handler[h1].status = 200
        /\ handler[h1].body.refunded_credits > 0
        /\ requests[handler[h1].requestId].status = "failed"
        /\ Cardinality(EntriesOf(ledger, handler[h1].requestId, "refund")) = 1
        /\ handler[h2].op = "cancel" /\ handler[h2].status = 200
        /\ handler[h2].body.refunded_credits = 0
        /\ requests[handler[h2].requestId].status = "failed"
        /\ EntriesOf(ledger, handler[h2].requestId, "refund") = {}

\* C11: a cancel by the owner of a request whose status is completed or
\* failed returns at its first step with 400 (500 when the lookup throws),
\* and the step changes neither table: no ledger row is appended and the
\* request row keeps its status, errorMessage and completedAt; and cancel
\* answers 400 for no other reason.
C11_CancelTerminalRejected ==
    [][\A hd \in Handlers :
          LET requestId == handler'[hd].requestId
              userId == handler'[hd].userId
          IN  /\ (/\ handler[hd].pc = "idle" /\ handler'[hd].op = "cancel"
                  /\ userId \in Users
                  /\ requestId \in 1..Len(requests)
                  /\ requests[requestId].userId = userId
                  /\ requests[requestId].status \in {"completed", "failed"})
                 => /\ handler'[hd].pc = "done"
                    /\ handler'[hd].status \in {400, 500}
                    /\ requests' = requests /\ ledger' = ledger
              /\ Finishes(hd, "cancel", 400)
                 => /\ requests[requestId].userId = userId
                    /\ requests[requestId].status \in {"completed", "failed"}
                    /\ requests' = requests /\ ledger' = ledger]_vars

\* C11's case: the cancel of a request the worker had completed was refused,
\* and the request is still completed.
C11_Witness ==
    \E hd \in Handlers :
        /\ handler[hd].op = "cancel" /\ handler[hd].status = 400
        /\ requests[handler[hd].requestId].status = "completed"
        /\ requests[handler[hd].requestId].errorMessage = ""
        /\ requests[handler[hd].requestId].completedAt = WorkerDate

\* C12: when a cancel of a request has returned 200 and the same caller
\* then cancels the same request again, the second call returns at its first
\* step with 400 (500 when the lookup throws) and leaves both tables as the
\* first call left them: the request has one refund row when it was charged
\* and none otherwise.
C12_SecondCancelRejected ==
    [][\A h1, h2 \in Handlers :
          LET requestId == handler[h1].requestId
          IN  (/\ h1 # h2
               /\ handler[h1].op = "cancel" /\ handler[h1].pc = "done"
               /\ handler[h1].status = 200
               /\ handler[h2].pc = "idle"
               /\ handler'[h2].op = "cancel"
               /\ handler'[h2].userId = handler[h1].userId
               /\ handler'[h2].requestId = requestId)
              => /\ handler'[h2].pc = "done"
                 /\ handler'[h2].status \in {400, 500}
                 /\ requests' = requests /\ ledger' = ledger
                 /\ Cardinality(EntriesOf(ledger', requestId, "refund")) =
                       (IF requests'[requestId].creditsCharged > 0 THEN 1 ELSE 0)
                 /\ handler[h1].body.refunded_credits =
                       requests'[requestId].creditsCharged]_vars

\* C12's case: a charged request was cancelled and refunded, the second
\* cancel of it was refused, and it has the one refund row.
C12_Witness ==
    \E h1, h2 \in Handlers :
        /\ handler[h1].op = "cancel" /\ handler[h1].status = 200
        /\ handler[h1].body.refunded_credits > 0
        /\ handler[h2].op = "cancel" /\ handler[h2].status = 400
        /\ handler[h2].requestId = handler[h1].requestId
        /\ handler[h2].userId = handler[h1].userId
        /\ Cardinality(EntriesOf(ledger, handler[h1].requestId, "refund")) = 1
        /\ before = Store

\* C13: cancel is all-or-nothing: once no cancel handler is running on it
\* (also when the handler ended in an error), a request with creditsCharged =
\* N > 0 that cancel has set to failed has a refund row of +N.
C13_CancelAllOrNothing ==
    \A requestId \in 1..Len(requests) :
        (/\ requests[requestId].creditsCharged > 0
         /\ requests[requestId].status = "failed"
         /\ requests[requestId].errorMessage = "Cancelled by user"
         /\ \A hd \in Handlers :
               ~(handler[hd].op = "cancel" /\ Active(hd)
                 /\ handler[hd].requestId = requestId))
        => \E i \in EntriesOf(ledger, requestId, "refund") :
              ledger[i].amount = requests[requestId].creditsCharged

\* C14: for every model and every valid num_outputs, the requiredCredits a
\* submit computes (and goes on to charge) is num_outputs * costPerRequest of
\* the model, also when costPerRequest is 0 or unset (0 credits then).
C14_RequiredCreditsIsProduct ==
    \A hd \in Handlers :
        (/\ handler[hd].op = "submit"
         /\ handler[hd].pc \in {"createRequest", "createCredit"})
        => handler[hd].requiredCredits =
              handler[hd].numOutputs * AiModels[handler[hd].modelId].costPerRequest

\* C15: the balance query is deterministic and never skips the latest row:
\* for every user and every ledger the handlers produce, the query can return
\* one value only, the balanceAfter of the user's latest row (0 without
\* rows), also when rows share a transaction time.
C15_BalanceReadDeterministic ==
    \A userId \in Users :
        BalanceReads(ledger, userId) = {LatestBalance(ledger, userId)}

\* C16: a cancel or a getById of an authenticated caller for a request id
\* that is another user's or is no request at all returns at once with 404
\* (500 when the lookup throws); what the handler returns is determined by
\* the operation, the caller and the id alone, so it is the same whether or
\* not the foreign request exists; and the step changes neither table.
C16_ForeignIsNotFound ==
    [][\A hd \in Handlers :
          LET op == handler'[hd].op
              userId == handler'[hd].userId
              requestId == handler'[hd].requestId
          IN  (/\ handler[hd].pc = "idle"
               /\ op \in {"cancel", "getById"}
               /\ userId \in Users
               /\ ~(requestId \in 1..Len(requests)
                    /\ requests[requestId].userId = userId))
              => /\ \E code \in {404, 500} :
                       handler'[hd] =
                           [IdleHandler EXCEPT !.op = op, !.userId = userId,
                                               !.requestId = requestId,
                                               !.pc = "done", !.status = code]
                 /\ requests' = requests /\ ledger' = ledger]_vars

\* C16's case: another user's request, still pending, was asked for by
\* cancel and by getById, and both were answered 404 with the same body.
C16_Witness ==
    \E h1, h2 \in Handlers :
        LET requestId == handler[h1].requestId
        IN  /\ handler[h1].op = "cancel" /\ handler[h1].status = 404
            /\ handler[h2].op = "getById" /\ handler[h2].status = 404
            /\ handler[h2].requestId = requestId
            /\ handler[h2].userId = handler[h1].userId
            /\ requestId \in 1..Len(requests)
            /\ requests[requestId].userId # handler[h1].userId
            /\ requests[requestId].status = "pending"
            /\ handler[h1].body = handler[h2].body

\* C17: no step of any handler or of the worker removes a request or changes
\* the creditsCharged of an existing request, and every refund row a step
\* appends has as amount the creditsCharged of the request it is linked to.
C17_CreditsChargedFixed ==
    [][/\ Len(requests') >= Len(requests)
       /\ \A requestId \in 1..Len(requests) :
             requests'[requestId].creditsCharged = requests[requestId].creditsCharged
       /\ \A i \in (Len(ledger) + 1)..Len(ledger') :
             ledger'[i].transactionType = "refund"
             => /\ ledger'[i].requestId \in 1..Len(requests')
                /\ ledger'[i].amount =
                      requests'[ledger'[i].requestId].creditsCharged]_vars

\* C17's case: a request created by a submit with a charge was cancelled and
\* refunded: it still carries the charge, and the refund is of that amount.
C17_Witness ==
    \E h1, h2 \in Handlers :
        LET requestId == handler[h1].body.request_id
        IN  /\ handler[h1].op = "submit" /\ handler[h1].status = 202
            /\ handler[h2].op = "cancel" /\ handler[h2].status = 200
            /\ handler[h2].requestId = requestId
            /\ requests[requestId].status = "failed"
            /\ requests[requestId].creditsCharged > 0
            /\ \E i \in EntriesOf(ledger, requestId, "refund") :
                  ledger[i].amount = requests[requestId].creditsCharged
            /\ \E i \in EntriesOf(ledger, requestId, "consumption") :
                  ledger[i].amount = -requests[requestId].creditsCharged

\* C18: the ledger is append-only: every step of every handler (submit,
\* cancel, list, getById) and of the worker leaves every existing ledger row
\* in place and unchanged; the ledger only grows at its end.
C18_LedgerAppendOnly ==
    [][/\ Len(ledger') >= Len(ledger)
       /\ SubSeq(ledger', 1, Len(ledger)) = ledger]_vars

\* C18's case: a submit and a cancel have each appended a row to the ledger
\* they found, the rows before them are as they were.
C18_Witness ==
    /\ Len(ledger) = Len(before.ledger) + 2
    /\ Len(before.ledger) > 0
    /\ SubSeq(ledger, 1, Len(before.ledger)) = before.ledger
    /\ ledger[Len(ledger) - 1].transactionType = "consumption"
    /\ ledger[Len(ledger)].transactionType = "refund"

\* C19: a submit goes on to the balance query only for a model that is in
\* the catalog and active; for any other model it returns at its first step,
\* and a submit answered 400 "invalid model" has returned at its first step,
\* before the balance query, with both tables as it found them.
C19_InvalidModelRejected ==
    [][\A hd \in Handlers :
          LET h == handler'[hd]
          IN  /\ (/\ handler[hd].pc = "idle" /\ h.op = "submit")
                 => \/ /\ h.pc = "readBalance"
                       /\ h.modelId \in 1..Len(AiModels)
                       /\ AiModels[h.modelId].isActive
                    \/ /\ h.pc = "done"
                       /\ h.status \in {400, 401, 500}
                       /\ requests' = requests /\ ledger' = ledger
              /\ (/\ Finishes(hd, "submit", 400) /\ h.body = InvalidModel)
                 => /\ handler[hd].pc = "idle"
                    /\ requests' = requests /\ ledger' = ledger]_vars

\* C19's case: a submit was refused for its model, with no balance read and
\* nothing written.
C19_Witness ==
    \E hd \in Handlers :
        /\ handler[hd].op = "submit" /\ handler[hd].status = 400
        /\ handler[hd].body = InvalidModel
        /\ handler[hd].currentBalance = 0 /\ handler[hd].requestId = 0
        /\ Store = before

\* C20: list and getById are pure reads: no step of theirs changes either
\* table.  The count of a list is the number of the caller's requests that
\* match the status and modelId filters given; the page it returns holds only
\* such requests, newest first, at most limit of them, namely those that
\* follow the first offset of the matching requests; its total is that count
\* and has_more is true exactly when offset + returned count < total.
C20_ListIsPureRead ==
    [][\A hd \in Handlers :
          LET h == handler[hd]
              body == handler'[hd].body
              data == body.data
              matches(row, where) ==
                  /\ row.userId = where.userId
                  /\ where.status = "" \/ row.status = where.status
                  /\ where.modelId = 0 \/ row.modelId = where.modelId
              matching == {i \in 1..Len(requests) : matches(requests[i], h.where)}
              returned == {data[k].request_id : k \in 1..Len(data)}
          IN  /\ (handler'[hd] # h /\ handler'[hd].op \in {"list", "getById"})
                 => requests' = requests /\ ledger' = ledger
              /\ (/\ h.pc = "idle" /\ handler'[hd].op = "list"
                  /\ handler'[hd].pc = "findMany")
                 => /\ handler'[hd].where.userId = handler'[hd].userId
                    /\ handler'[hd].totalCount =
                          Cardinality({i \in 1..Len(requests) :
                              matches(requests[i], handler'[hd].where)})
              /\ Finishes(hd, "list", 200)
                 => /\ h.pc = "findMany"
                    /\ returned \subseteq matching
                    /\ \A k \in 1..Len(data) :
                          /\ data[k].status = requests[data[k].request_id].status
                          /\ data[k].modelId = requests[data[k].request_id].modelId
                    /\ \A k \in 1..(Len(data) - 1) :
                          data[k].request_id > data[k + 1].request_id
                    /\ Len(data) <= body.limit
                    /\ body.limit = h.limit /\ body.offset = h.offset
                    /\ \A i \in matching :
                          i \in returned
                          <=> LET newer == Cardinality({j \in matching : j > i})
                              IN  newer >= h.offset /\ newer < h.offset + h.limit
                    /\ body.total = h.totalCount
                    /\ body.has_more = (body.offset + Len(data) < body.total)]_vars

\* C20's case: a list of one request per page, asked from offset 1, has
\* returned the second newest of the caller's three requests and says there
\* are more.
C20_Witness ==
    \E hd \in Handlers :
        /\ handler[hd].op = "list" /\ handler[hd].status = 200
        /\ handler[hd].body.limit = 1 /\ handler[hd].body.offset = 1
        /\ handler[hd].body.total = 3
        /\ Len(handler[hd].body.data) = 1
        /\ handler[hd].body.data[1].request_id = 2
        /\ requests[2].userId = handler[hd].userId
        /\ handler[hd].body.has_more
        /\ Len(requests) = 3 /\ ledger # << >>

\* C21: every handler that has started eventually returns, whatever the
\* other handlers do, when every store call returns or fails; a running
\* handler's next step never waits for another handler; and a handler that
\* has returned stays as it is: it responds once.
C21_HandlersFinish ==
    /\ \A hd \in Handlers : Active(hd) ~> handler[hd].pc = "done"
    /\ [](\A hd \in Handlers : Active(hd) => ENABLED Proceeds(hd))
    /\ [][\A hd \in Handlers :
             handler[hd].pc = "done" => handler'[hd] = handler[hd]]_vars

\* C21's case: a submit and a cancel that ran at the same time have both
\* returned, one with its last step, the other after a store call failed.
C21_Witness ==
    \E h1, h2 \in Handlers :
        /\ handler[h1].op = "submit" /\ handler[h1].status = 202
        /\ handler[h2].op = "cancel" /\ handler[h2].status = 500
        /\ handler[h2].requestId = handler[h1].requestId
        /\ requests[handler[h2].requestId].status = "failed"

RECURSIVE SumOfType(_, _, _)
\* Sum of the amounts of the user's rows of the given type.
SumOfType(led, userId, type) ==
    IF led = << >> THEN 0
    ELSE (IF Head(led).userId = userId /\ Head(led).transactionType = type
          THEN Head(led).amount ELSE 0)
         + SumOfType(Tail(led), userId, type)

RECURSIVE Refunded(_, _)
\* Sum of the refunds linked to the request.
Refunded(led, requestId) ==
    IF led = << >> THEN 0
    ELSE (IF Head(led).requestId = requestId /\ Head(led).transactionType = "refund"
          THEN Head(led).amount ELSE 0)
         + Refunded(Tail(led), requestId)

\* C22: credits are conserved under any interleaving of submits and cancels:
\* for every user the refunds sum to at most what the consumptions took, for
\* every request the refunds sum to at most its creditsCharged, and no balance
\* the user can read exceeds the sum of the user's purchases.
C22_CreditsConserved ==
    /\ \A userId \in Users :
          /\ SumOfType(ledger, userId, "refund")
                <= -SumOfType(ledger, userId, "consumption")
          /\ \A balance \in BalanceReads(ledger, userId) :
                balance <= SumOfType(ledger, userId, "purchase")
    /\ \A requestId \in 1..Len(requests) :
          Refunded(ledger, requestId) <= requests[requestId].creditsCharged

\* balanceAfter of the user's latest row among the rows before index i.
BalanceBefore(led, userId, i) ==
    LatestBalance(SubSeq(led, 1, i - 1), userId)

\* C23: when a submit was accepted and the caller's next operation (handlers
\* are numbered in order of arrival), run after it, is a cancel of that
\* request that answers 200, the balance the user reads afterwards is the
\* balance before the submit: the user's last two rows are the debit and the
\* refund of the request, of opposite amounts, and the refund's balanceAfter
\* is the balanceAfter of the user's latest row before the debit.
C23_SubmitCancelRoundTrip ==
    [][\A h1, h2 \in Handlers :
          (/\ h1 < h2
           /\ handler[h1].op = "submit" /\ handler[h1].status = 202
           /\ \A hd \in Handlers :
                 (h1 < hd /\ hd < h2) => handler[hd].userId # handler[h1].userId
           /\ Finishes(h2, "cancel", 200)
           /\ handler'[h2].requestId = handler[h1].body.request_id)
          => LET userId == handler[h1].userId
                 rows == UserRows(ledger', userId)
                 refund == Max(rows)
                 debit == Max(rows \ {refund})
             IN  /\ Cardinality(rows) >= 2
                 /\ handler'[h2].userId = userId
                 /\ ledger'[debit].transactionType = "consumption"
                 /\ ledger'[debit].requestId = handler'[h2].requestId
                 /\ ledger'[refund].transactionType = "refund"
                 /\ ledger'[refund].requestId = handler'[h2].requestId
                 /\ ledger'[refund].amount = -ledger'[debit].amount
                 /\ ledger'[refund].amount > 0
                 /\ BalanceReads(ledger', userId) =
                       {BalanceBefore(ledger', userId, debit)}]_vars

\* C23's case: a submit of u1 was accepted and then cancelled, and u1 reads
\* the balance of before the submit.
C23_Witness ==
    \E h1, h2 \in Handlers :
        /\ handler[h1].op = "submit" /\ handler[h1].status = 202
        /\ handler[h2].op = "cancel" /\ handler[h2].status = 200
        /\ handler[h2].requestId = handler[h1].body.request_id
        /\ handler[h2].body.refunded_credits > 0
        /\ Len(ledger) >= 3
        /\ BalanceReads(ledger, handler[h1].userId) =
              {LatestBalance(SubSeq(ledger, 1, Len(ledger) - 2), handler[h1].userId)}
        /\ LatestBalance(ledger, handler[h1].userId) > 0

\* C24: in every state, under any interleaving, every consumption or refund
\* row is linked to an existing request of the row's user; a consumption's
\* amount is minus that request's creditsCharged and a refund's amount is
\* that creditsCharged; and every request with a refund row is failed.
C24_EntriesLinked ==
    \A i \in 1..Len(ledger) :
        LET entry == ledger[i]
        IN  entry.transactionType \in {"consumption", "refund"}
            => /\ entry.requestId \in 1..Len(requests)
               /\ requests[entry.requestId].userId = entry.userId
               /\ entry.transactionType = "consumption"
                  => entry.amount = -requests[entry.requestId].creditsCharged
               /\ entry.transactionType = "refund"
                  => /\ entry.amount = requests[entry.requestId].creditsCharged
                     /\ requests[entry.requestId].status = "failed"

\* C24's case: two handlers have written: one request has its debit and its
\* refund and is failed, and another row of the ledger is the debit of a
\* second request.
C24_Witness ==
    \E i, j, k \in 1..Len(ledger) :
        /\ ledger[i].transactionType = "consumption"
        /\ ledger[j].transactionType = "refund"
        /\ ledger[j].requestId = ledger[i].requestId
        /\ requests[ledger[j].requestId].status = "failed"
        /\ ledger[k].transactionType = "consumption"
        /\ ledger[k].requestId # ledger[i].requestId
        /\ \E hd \in Handlers : handler[hd].op = "submit" /\ handler[hd].status = 202
        /\ \E hd \in Handlers : handler[hd].op = "cancel" /\ handler[hd].status = 200

\* The user's rows of the ledger, in order.
RowsOf(led, userId) == SelectSeq(led, LAMBDA entry : entry.userId = userId)

\* C25: a step of a submit or cancel handler of one caller, whatever its
\* outcome, leaves every other user's requests and ledger rows as they were:
\* it changes, adds or removes no request and no ledger row of another user,
\* and the balance another user reads is the same after the step.
C25_UserIsolation ==
    [][\A hd \in Handlers :
          (/\ handler'[hd] # handler[hd]
           /\ handler'[hd].op \in {"submit", "cancel"})
          => \A other \in Users \ {handler'[hd].userId} :
                /\ RowsOf(ledger', other) = RowsOf(ledger, other)
                /\ BalanceReads(ledger', other) = BalanceReads(ledger, other)
                /\ \A requestId \in 1..Len(requests) :
                      requests[requestId].userId = other
                      => requests'[requestId] = requests[requestId]
                /\ \A requestId \in (Len(requests) + 1)..Len(requests') :
                      requests'[requestId].userId # other]_vars

\* C25's case: u1's submit was accepted, u2's cancel of u1's request was
\* refused, and neither touched the other: the request is still pending and
\* u2's ledger is the one u2 started with.
C25_Witness ==
    \E h1, h2 \in Handlers :
        /\ handler[h1].op = "submit" /\ handler[h1].status = 202
        /\ handler[h1].userId = "u1"
        /\ handler[h2].op = "cancel" /\ handler[h2].status = 404
        /\ handler[h2].userId = "u2"
        /\ handler[h2].requestId = handler[h1].body.request_id
        /\ requests[handler[h2].requestId].status = "pending"
        /\ RowsOf(ledger, "u2") = RowsOf(before.ledger, "u2")
        /\ RowsOf(ledger, "u2") # << >>
        /\ RowsOf(ledger, "u1") # RowsOf(before.ledger, "u1")

====
